---------------------------- MODULE Spec2Model ----------------------------
(***************************************************************************)
(* circle-pinger: the scheduler (pinger.Pinger), the running statistics    *)
(* (logStats / Summarize), the probe variants (tcp, tcp+tls, udp, http)    *)
(* and the command that wires them (cli.runCommand).                       *)
(*                                                                         *)
(* Goroutines of one run:                                                  *)
(*   main     runCommand: go Ping(); select{sigs, Done()}; Stop();         *)
(*            Summarize(); return (the process exits)                      *)
(*   ping     Pinger.Ping: starts watcher and loop, then group.Wait()      *)
(*   watcher  first errgroup goroutine: select{Done(), ctx.Done()}         *)
(*   loop     second errgroup goroutine: the attempt loop                  *)
(* A probe attempt runs synchronously inside the loop goroutine; its       *)
(* blocking network operations are the values of phase.                    *)
(***************************************************************************)
EXTENDS Integers, Sequences, FiniteSets, TLC

\* ------------------------------------------------------------------ bounds
MaxCounter  == 2   \* attempt limits 0..MaxCounter are explored (0 = unbounded)
MaxAttempts == 3   \* cap on attempts of an unbounded run
MaxDuration == 2   \* attempt durations are 0..MaxDuration clock ticks
MaxApiStops == 1   \* Stop() calls by API callers other than runCommand
MaxMetaKeys == 3   \* keys a Meta map is drawn from
MaxRegisters == 2  \* Register() calls besides those of cli.Initialize
MaxClock == 3      \* clock ticks of one traced request
MaxDials == 2      \* connects of one request under way at once
MaxTimeout == 2    \* configured timeouts are -1..MaxTimeout seconds
MaxTime == 6       \* seconds of one attempt's clock

\* ------------------------------------------------------- program constants
\* math.MaxInt64, the initial running minimum; represented by the largest
\* integer of the model's arithmetic (every duration is far below it).
MaxInt64 == 2147483647
\* DefaultInterval (one second), the delay timer.Reset arms.
DefaultInterval == 1
\* time.NewTimer(time.Duration(0)): the delay of the loop's first timer.
InitialTimerDelayLate == DefaultInterval
InitialTimerDelay == 0
\* DefaultTimeout (five seconds), in seconds.
DefaultTimeout == 5

Durations == 0..MaxDuration
Protocols == {"tcp", "tls", "udp", "http"}
NoStats   == [connected |-> FALSE, err |-> "none", duration |-> 0, dns |-> 0,
              extra |-> "none", addr |-> "none", meta |-> {}]
NoAttempt == [lookups |-> 0, dnsTime |-> 0, tlsErr |-> FALSE,
              received |-> FALSE, connectAddr |-> "none", response |-> FALSE,
              bodyFailed |-> FALSE, ops |-> {}]
NoSummary == [shown |-> FALSE, total |-> 0, success |-> 0, failed |-> 0,
              times |-> FALSE, min |-> 0, max |-> 0, avg |-> 0]
NoSnapshot == [okCount |-> 0, okSum |-> 0, lines |-> 0, loopDone |-> FALSE]

VARIABLES
  \* configuration, fixed by runCommand before the run
  counter,        \* Pinger.counter: attempt limit, 0 = unbounded
  proto,          \* which probe variant p.ping is
  hostIsIP,       \* the target host is a literal IP address
  trace,          \* http: the --meta flag, p.trace
  proxyByName,    \* http: a proxy is configured and named by a host name
  \* Pinger
  stopOnceDone,   \* stopOnce has run its function
  stopClosed,     \* stopC is closed
  closeAttempts,  \* times close(p.stopC) was executed
  panicked,       \* a close of the closed channel panicked
  minDuration, maxDuration, totalDuration, total, failedTotal,
  \* Ping(): errgroup and its two goroutines
  pingPc, watcherPc, loopPc,
  ctxDone,        \* the errgroup context is cancelled
  groupErr,       \* the errgroup's first non-nil error
  timer,          \* "none" | "armed" | "fired" | "stopped"
  timerDelay,     \* the delay the timer was last armed with
  \* the attempt in flight
  phase,          \* the blocking operation the probe is in
  deadlinePassed, \* the attempt's deadline (pingCtx) has expired
  openConns,      \* connections / sockets opened by attempts and not closed
  stats,          \* the *Stats the probe fills and returns
  attempt,        \* tcp.Ping's tlsErr; history of the attempt: DNS lookups
                  \* made and the time they took, a datagram was read, the
                  \* address a connect started to, a response header was
                  \* received, the body read failed, the operations
                  \* udp.Ping went through
  \* output sink
  lines,          \* per-attempt lines written
  errLines,       \* "Pinger runtime error" lines written
  \* runCommand
  mainPc, signalled, summary,
  \* history, for stating properties only
  stopCalls,      \* calls of Stop() so far
  apiStops,       \* of which by API callers other than runCommand / the loop
  attemptsStarted,\* attempts begun
  firstDelay,     \* delay of the timer that released attempt 1 (-1: none yet)
  okDurations,    \* durations of the processed Results with connected
  okCount, okSum, \* their number and their sum
  lastErr,        \* Error of the Result logStats has processed, until it
                  \* is counted in total
  snapshot,       \* history as it was when Summarize ran
  \* the package's functions that are no part of a run, called on their own
  metaCall,       \* a call of Stats.FormatMeta
  protoCall,      \* a call of NewProtocol
  reg,            \* the protocol registry and the calls made on it
  tracer,         \* the Trace of one HTTP attempt and the clock of its hooks
  timing          \* the contexts of one attempt and their clock

libVars   == <<metaCall, protoCall, reg, tracer, timing>>
\* what no step of a run changes
cfgVars   == <<counter, proto, hostIsIP, trace, proxyByName, libVars>>
stopVars  == <<stopOnceDone, stopClosed, closeAttempts, panicked, stopCalls>>
statVars  == <<minDuration, maxDuration, totalDuration, total, failedTotal>>
groupVars == <<ctxDone, groupErr>>
timerVars == <<timer, timerDelay>>
probeVars == <<phase, deadlinePassed, openConns, stats, attempt>>
outVars   == <<lines, errLines>>
mainVars  == <<mainPc, signalled, summary, snapshot>>
histVars  == <<attemptsStarted, firstDelay, okDurations, okCount, okSum, lastErr>>
vars == <<cfgVars, stopVars, statVars, groupVars, timerVars, probeVars, outVars,
          mainVars, histVars, apiStops, pingPc, watcherPc, loopPc>>

\* ------------------------------------------------------------------- Init
\* NewPinger (stats zero, stopC open) and runCommand up to `go pinger.Ping()`.
\* A proxy named by a host name is explored for a literal-IP target, where it
\* decides whether the transport resolves a name.
RunInit ==
  /\ counter \in 0..MaxCounter
  /\ proto \in Protocols
  /\ hostIsIP \in BOOLEAN
  /\ trace \in (IF proto = "http" THEN BOOLEAN ELSE {FALSE})
  /\ proxyByName \in (IF proto = "http" /\ hostIsIP THEN BOOLEAN ELSE {FALSE})
  /\ stopOnceDone = FALSE /\ stopClosed = FALSE /\ closeAttempts = 0
  /\ panicked = FALSE /\ stopCalls = 0 /\ apiStops = 0
  /\ minDuration = 0 /\ maxDuration = 0 /\ totalDuration = 0
  /\ total = 0 /\ failedTotal = 0
  /\ pingPc = "start" /\ watcherPc = "idle" /\ loopPc = "idle"
  /\ ctxDone = FALSE /\ groupErr = "nil"
  /\ timer = "none" /\ timerDelay = 0
  /\ phase = "none" /\ deadlinePassed = FALSE /\ openConns = 0
  /\ stats = NoStats /\ attempt = NoAttempt
  /\ lines = 0 /\ errLines = 0
  /\ mainPc = "select" /\ signalled = FALSE /\ summary = NoSummary
  /\ snapshot = NoSnapshot
  /\ attemptsStarted = 0 /\ firstDelay = -1
  /\ okDurations = {} /\ okCount = 0 /\ okSum = 0 /\ lastErr = "none"

\* No call of FormatMeta, of NewProtocol or on the registry is under way;
\* var pinger = make(map[Protocol]Factory).
NoMetaCall  == [pc |-> "idle", meta |-> <<>>, order |-> <<>>, out |-> <<>>]
NoProtoCall == [pc |-> "idle", word |-> <<>>, upper |-> {}, input |-> <<>>,
                out |-> [proto |-> 0, err |-> "nil"]]
NoLoad      == [valid |-> FALSE, p |-> 0, factory |-> "nil", ok |-> FALSE]
NoRegistry  == [pinger |-> <<>>, log |-> <<>>, registers |-> 0,
                initialized |-> FALSE, loaded |-> NoLoad]
NoTracer    == [pc |-> "idle"]
NoTiming    == [pc |-> "idle"]
LibIdle ==
  /\ metaCall = NoMetaCall /\ protoCall = NoProtoCall /\ reg = NoRegistry
  /\ tracer = NoTracer /\ timing = NoTiming

Init == RunInit /\ LibIdle

\* The process is running: main has not returned and nothing panicked.
Alive == mainPc # "exit" /\ ~panicked

\* ------------------------------------------------------------ Pinger.Stop
\* close(p.stopC); closing a closed channel panics.
CloseStopC ==
  /\ closeAttempts' = closeAttempts + 1
  /\ IF stopClosed
       THEN panicked' = TRUE /\ UNCHANGED stopClosed
       ELSE stopClosed' = TRUE /\ UNCHANGED panicked

\* Stop without the sync.Once: every call closes the channel.
StopNoOnce ==
  /\ stopCalls' = stopCalls + 1
  /\ stopOnceDone' = TRUE
  /\ CloseStopC

\* p.stopOnce.Do(func() { close(p.stopC) }); Once.Do is atomic with respect to
\* other Do calls and runs the function only on the first.
Stop ==
  /\ stopCalls' = stopCalls + 1
  /\ IF stopOnceDone
       THEN UNCHANGED <<stopOnceDone, stopClosed, closeAttempts, panicked>>
       ELSE stopOnceDone' = TRUE /\ CloseStopC

\* Done(): the channel is readable once stopC is closed.
DoneClosed == stopClosed

\* ------------------------------------------------------------ logStats
\* errors.Is(stats.Error, context.Canceled) is the only exemption.
CountsAsFailureAnyError(st) == st.err # "nil"
CountsAsFailure(st) == st.err # "nil" /\ st.err # "canceled"

\* The comparison reversed.
NewMinReversed(st) ==
  IF st.connected /\ st.duration > minDuration THEN st.duration ELSE minDuration
NewMin(st) ==
  IF st.connected /\ st.duration < minDuration THEN st.duration ELSE minDuration

NewMax(st) ==
  IF st.connected /\ st.duration > maxDuration THEN st.duration ELSE maxDuration

\* The duration added whether or not the target was reached.
NewSumAlways(st) == totalDuration + st.duration
NewSum(st) ==
  IF st.connected THEN totalDuration + st.duration ELSE totalDuration

NewFailed(st) ==
  IF CountsAsFailure(st) THEN failedTotal + 1 ELSE failedTotal

\* The per-attempt line: its status word, and whether it carries the
\* parenthesized error reason.
StatusWord(st) == IF st.connected THEN "connected" ELSE "Failed"
HasErrorDetail(st) == st.err # "nil"

\* logStats(stats): the statistics update and the per-attempt line (p.out is
\* os.Stdout, never nil, in runCommand).
LogStats(st) ==
  /\ minDuration' = NewMin(st)
  /\ maxDuration' = NewMax(st)
  /\ totalDuration' = NewSum(st)
  /\ failedTotal' = NewFailed(st)
  /\ lines' = lines + 1

\* ------------------------------------------------------------ Summarize
\* p.totalDuration / time.Duration(p.total), when p.total > 0.
AvgDuration ==
  IF total > 0 THEN totalDuration \div total ELSE 0

\* summaryData as the template receives it; times is {{if .Total}}.
SummaryData ==
  [shown |-> TRUE,
   total |-> total,
   success |-> total - failedTotal,
   failed |-> failedTotal,
   times |-> total # 0,
   min |-> IF total > 0 THEN minDuration ELSE 0,
   max |-> IF total > 0 THEN maxDuration ELSE 0,
   avg |-> AvgDuration]

\* ------------------------------------------------------------ Pinger.Ping
\* errgroup: a goroutine returning a non-nil error records it if it is the
\* first and cancels the group's context.
GroupReturn(err) ==
  IF err = "nil"
    THEN UNCHANGED groupVars
    ELSE /\ groupErr' = (IF groupErr = "nil" THEN err ELSE groupErr)
         /\ ctxDone' = TRUE

\* errgroup.WithContext and group.Go(watcher).
PingStart ==
  /\ Alive /\ pingPc = "start"
  /\ pingPc' = "init" /\ watcherPc' = "select"
  /\ UNCHANGED <<cfgVars, stopVars, statVars, groupVars, timerVars, probeVars,
                 outVars, mainVars, histVars, apiStops, loopPc>>

\* p.minDuration = math.MaxInt64 and group.Go(loop); Ping then blocks in Wait.
PingInit ==
  /\ Alive /\ pingPc = "init"
  /\ minDuration' = MaxInt64
  /\ pingPc' = "wait" /\ loopPc' = "start"
  /\ UNCHANGED <<cfgVars, stopVars, maxDuration, totalDuration, total,
                 failedTotal, groupVars, timerVars, probeVars, outVars,
                 mainVars, histVars, apiStops, watcherPc>>

\* A watcher that waits for the context only.
WatcherWakeOnContextOnly == ctxDone

\* The watcher's select: either channel being ready wakes it, and both
\* branches return context.Canceled (ctx.Err() of a cancelled context).
WatcherWake == DoneClosed \/ ctxDone

Watcher ==
  /\ Alive /\ watcherPc = "select" /\ WatcherWake
  /\ watcherPc' = "done"
  /\ GroupReturn("canceled")
  /\ UNCHANGED <<cfgVars, stopVars, statVars, timerVars, probeVars, outVars,
                 mainVars, histVars, apiStops, pingPc, loopPc>>

\* timer := time.NewTimer(0)
LoopStart ==
  /\ Alive /\ loopPc = "start"
  /\ timer' = "armed" /\ timerDelay' = InitialTimerDelay
  /\ loopPc' = "select"
  /\ UNCHANGED <<cfgVars, stopVars, statVars, groupVars, probeVars, outVars,
                 mainVars, histVars, apiStops, pingPc, watcherPc>>

\* The runtime delivers the timer's tick on timer.C.
TimerFire ==
  /\ Alive /\ timer = "armed"
  /\ timer' = "fired"
  /\ UNCHANGED <<cfgVars, stopVars, statVars, groupVars, timerDelay, probeVars,
                 outVars, mainVars, histVars, apiStops, pingPc, watcherPc, loopPc>>

\* udp.Ping resolving whatever the host is.
FirstPhaseAlwaysResolves ==
  CASE proto = "tcp"  -> "dial"
    [] proto = "tls"  -> "tlsdial"
    [] proto = "udp"  -> "dns"
    [] proto = "http" -> "do"

\* The first blocking operation of each probe variant.
FirstPhase ==
  CASE proto = "tcp"  -> "dial"
    [] proto = "tls"  -> "tlsdial"
    [] proto = "udp"  -> IF hostIsIP THEN "dial" ELSE "dns"
    [] proto = "http" -> "do"

\* case <-timer.C: context.WithTimeout(ctx, p.timeout) and p.ping.Ping(pingCtx).
LoopFire ==
  /\ Alive /\ loopPc = "select" /\ timer = "fired"
  /\ attemptsStarted < MaxAttempts
  /\ timer' = "none"
  /\ loopPc' = "inflight"
  /\ phase' = FirstPhase /\ deadlinePassed' = FALSE
  /\ attemptsStarted' = attemptsStarted + 1
  /\ firstDelay' = (IF attemptsStarted = 0 THEN timerDelay ELSE firstDelay)
  /\ UNCHANGED <<cfgVars, stopVars, statVars, groupVars, timerDelay, openConns,
                 stats, attempt, outVars, mainVars, okDurations, okCount, okSum,
                 lastErr, apiStops, pingPc, watcherPc>>

\* case <-ctx.Done() of the outer select: return ctx.Err(); the deferred
\* timer.Stop() runs.
LoopCancelled ==
  /\ Alive /\ loopPc = "select" /\ ctxDone
  /\ loopPc' = "done" /\ timer' = "stopped"
  /\ GroupReturn("canceled")
  /\ UNCHANGED <<cfgVars, stopVars, statVars, timerDelay, probeVars, outVars,
                 mainVars, histVars, apiStops, pingPc, watcherPc>>

\* pingCancel() and p.logStats(stats), the last use of stats in the iteration.
LoopLogStats ==
  /\ Alive /\ loopPc = "log"
  /\ LogStats(stats)
  /\ loopPc' = "inc"
  /\ okDurations' = (IF stats.connected THEN okDurations \cup {stats.duration}
                                        ELSE okDurations)
  /\ okCount' = (IF stats.connected THEN okCount + 1 ELSE okCount)
  /\ okSum' = (IF stats.connected THEN okSum + stats.duration ELSE okSum)
  /\ lastErr' = stats.err
  /\ stats' = NoStats /\ attempt' = NoAttempt
  /\ UNCHANGED <<cfgVars, stopVars, total, groupVars, timerVars, phase,
                 deadlinePassed, openConns, errLines, mainVars, attemptsStarted,
                 firstDelay, apiStops, pingPc, watcherPc>>

\* p.total++
LoopIncTotal ==
  /\ Alive /\ loopPc = "inc"
  /\ total' = total + 1
  /\ loopPc' = "check"
  /\ lastErr' = "none"
  /\ UNCHANGED <<cfgVars, stopVars, minDuration, maxDuration, totalDuration,
                 failedTotal, groupVars, timerVars, probeVars, outVars, mainVars,
                 attemptsStarted, firstDelay, okDurations, okCount, okSum,
                 apiStops, pingPc, watcherPc>>

\* The limit taken as reached once an attempt has failed.
CounterReachedOrFailed == (counter > 0 /\ total >= counter) \/ failedTotal > 0
\* The limit tested without asking whether there is one.
CounterReachedUnlimited == total >= counter
\* The limit tested one attempt late.
CounterReachedLate == counter > 0 /\ total > counter
CounterReached == counter > 0 /\ total >= counter

\* if p.counter > 0 && p.total >= p.counter { p.Stop(); return nil }
LoopCounterReached ==
  /\ Alive /\ loopPc = "check" /\ CounterReached
  /\ Stop
  /\ loopPc' = "done" /\ timer' = "stopped"
  /\ UNCHANGED <<cfgVars, statVars, groupVars, timerDelay, probeVars, outVars,
                 mainVars, histVars, apiStops, pingPc, watcherPc>>

\* The inner select: ctx.Done() ready returns ctx.Err(); default resets the
\* timer to p.interval.
LoopNext ==
  /\ Alive /\ loopPc = "check" /\ ~CounterReached
  /\ IF ctxDone
       THEN /\ loopPc' = "done" /\ timer' = "stopped"
            /\ GroupReturn("canceled")
            /\ UNCHANGED timerDelay
       ELSE /\ loopPc' = "select"
            /\ timer' = "armed" /\ timerDelay' = DefaultInterval
            /\ UNCHANGED groupVars
  /\ UNCHANGED <<cfgVars, stopVars, statVars, probeVars, outVars, mainVars,
                 histVars, apiStops, pingPc, watcherPc>>

\* Every non-nil error reported, context.Canceled included.
IsRuntimeErrorUnfiltered(err) == err # "nil"
\* err != nil && !errors.Is(err, context.Canceled)
IsRuntimeError(err) == err # "nil" /\ err # "canceled"

\* group.Wait() returns once both goroutines returned; an error that is not
\* context.Canceled is written by logError.
PingWait ==
  /\ Alive /\ pingPc = "wait" /\ watcherPc = "done" /\ loopPc = "done"
  /\ pingPc' = "returned"
  /\ ctxDone' = TRUE /\ UNCHANGED groupErr
  /\ errLines' = (IF IsRuntimeError(groupErr) THEN errLines + 1 ELSE errLines)
  /\ UNCHANGED <<cfgVars, stopVars, statVars, timerVars, probeVars, lines,
                 mainVars, histVars, apiStops, watcherPc, loopPc>>

\* ------------------------------------------------------------ the probes
\* The probe returns *Stats st to the loop.
Finish(st) ==
  /\ stats' = st
  /\ phase' = "none"
  /\ loopPc' = "log"

\* The Stats the probe has built, with its outcome set.
Result(c, e, d) == [stats EXCEPT !.connected = c, !.err = e, !.duration = d]

ReturnStats(c, e, d, n, x) ==
  Finish([Result(c, e, d) EXCEPT !.dns = n, !.extra = x])

\* A return that leaves DNSDuration and Extra as the probe has set them.
Return(c, e, d) == ReturnStats(c, e, d, stats.dns, stats.extra)

\* What a context-aware operation fails with once the attempt's context is
\* done: context.Canceled after the run's cancellation, a deadline error
\* after the attempt's timeout.
CtxErrs ==
  (IF ctxDone THEN {"canceled"} ELSE {}) \cup
  (IF deadlinePassed THEN {"deadline"} ELSE {})

InFlight(pr, ph) == Alive /\ loopPc = "inflight" /\ proto = pr /\ phase = ph

probeFrame ==
  UNCHANGED <<cfgVars, stopVars, statVars, groupVars, timerVars, outVars,
              mainVars, histVars, apiStops, pingPc, watcherPc>>

\* What time.Since measures over a lookup: a positive time.
DnsTimes == {1}

\* The resolver is asked n times for the addresses of a host name, which
\* takes time t.
Resolved(a, n, t) ==
  [a EXCEPT !.lookups = @ + n, !.dnsTime = IF t > @ THEN t ELSE @]
Looked(n, t) == attempt' = Resolved(attempt, n, t)

\* The attempt a, having gone through operation op.
Did(a, op) == [a EXCEPT !.ops = @ \cup {op}]

\* Name resolution inside a dial that carries the httptrace hooks: a literal
\* IP is parsed without a lookup and without calling DNSStart / DNSDone; a
\* host name is looked up and the time between the two hooks is recorded.
NoLookup == [lookups |-> 0, dns |-> 0]
TracedDial ==
  IF hostIsIP THEN {NoLookup}
              ELSE {[lookups |-> 1, dns |-> d] : d \in DnsTimes}

\* The same when the context was done: the dial may end before it resolves.
TracedDialCtx == TracedDial \cup {NoLookup}

\* Address of a failed dial: the *net.OpError's Addr when it has one.
ErrAddrs == {"none", "peer"}

\* The attempt's timeout (context.WithTimeout in Pinger.Ping and in the
\* probe) expires while the attempt is in flight.
DeadlineExpire ==
  /\ Alive /\ loopPc = "inflight" /\ ~deadlinePassed
  /\ deadlinePassed' = TRUE
  /\ UNCHANGED <<phase, openConns, stats, attempt, loopPc>>
  /\ probeFrame

\* --- tcp.Ping, plain: p.dialer.DialContext(ctx, ...)
\* The connection is returned in conn and never closed.
TcpDialOk ==
  /\ InFlight("tcp", "dial")
  /\ openConns' = openConns + 1
  /\ \E d \in Durations, r \in TracedDial :
       /\ Finish([Result(TRUE, "nil", d) EXCEPT !.dns = r.dns, !.addr = "peer"])
       /\ Looked(r.lookups, r.dns)
  /\ UNCHANGED deadlinePassed /\ probeFrame

\* A dial that failed and returned a Result without an error.
TcpDialFailNoError ==
  /\ InFlight("tcp", "dial")
  /\ \E d \in Durations, r \in TracedDial, a \in ErrAddrs :
       /\ Finish([Result(FALSE, "nil", d) EXCEPT !.dns = r.dns, !.addr = a])
       /\ Looked(r.lookups, r.dns)
  /\ UNCHANGED <<deadlinePassed, openConns>> /\ probeFrame

TcpDialFail ==
  /\ InFlight("tcp", "dial")
  /\ \E d \in Durations, r \in TracedDial, a \in ErrAddrs :
       /\ Finish([Result(FALSE, "neterr", d) EXCEPT !.dns = r.dns, !.addr = a])
       /\ Looked(r.lookups, r.dns)
  /\ UNCHANGED <<deadlinePassed, openConns>> /\ probeFrame

TcpDialCtx ==
  /\ InFlight("tcp", "dial")
  /\ \E e \in CtxErrs, d \in Durations, r \in TracedDialCtx, a \in ErrAddrs :
       /\ Finish([Result(FALSE, e, d) EXCEPT !.dns = r.dns, !.addr = a])
       /\ Looked(r.lookups, r.dns)
  /\ UNCHANGED <<deadlinePassed, openConns>> /\ probeFrame

\* --- tcp.Ping with tls: tls.DialWithDialer(p.dialer, ...) takes no context;
\* it ends only by the handshake completing or the network failing it, and
\* its name resolution runs without the trace hooks: the time it takes is
\* not recorded. The peer presents its certificate chain: Extra is the
\* certificate summary.
UntracedDnsTimes == IF hostIsIP THEN {0} ELSE DnsTimes

TlsDialOk ==
  /\ InFlight("tls", "tlsdial")
  /\ openConns' = openConns + 1
  /\ \E d \in Durations :
       Finish([Result(TRUE, "nil", d) EXCEPT !.extra = "cert", !.addr = "peer"])
  /\ \E t \in UntracedDnsTimes : Looked(IF hostIsIP THEN 0 ELSE 1, t)
  /\ UNCHANGED deadlinePassed /\ probeFrame

\* The handshake or its dial failed (the library closes its raw connection):
\* tlsErr = err, and fall back to p.dialer.DialContext(ctx, ...).
TlsDialFail ==
  /\ InFlight("tls", "tlsdial")
  /\ phase' = "dial"
  /\ \E t \in UntracedDnsTimes :
       attempt' = [attempt EXCEPT !.tlsErr = TRUE,
                                  !.lookups = @ + (IF hostIsIP THEN 0 ELSE 1),
                                  !.dnsTime = t]
  /\ UNCHANGED <<deadlinePassed, openConns, stats, loopPc>> /\ probeFrame

\* err == nil with tlsConn == nil: Extra is the "TLS handshake failed" note.
TlsFallbackOk ==
  /\ InFlight("tls", "dial")
  /\ openConns' = openConns + 1
  /\ \E d \in Durations, r \in TracedDial :
       /\ Finish([Result(TRUE, "nil", d) EXCEPT !.dns = r.dns, !.extra = "note",
                                                !.addr = "peer"])
       /\ Looked(r.lookups, r.dns)
  /\ UNCHANGED deadlinePassed /\ probeFrame

\* err != nil: stats.Error is the fallback's error and Extra is not set.
TlsFallbackFail ==
  /\ InFlight("tls", "dial")
  /\ \E d \in Durations, r \in TracedDial, a \in ErrAddrs :
       /\ Finish([Result(FALSE, "neterr", d) EXCEPT !.dns = r.dns, !.addr = a])
       /\ Looked(r.lookups, r.dns)
  /\ UNCHANGED <<deadlinePassed, openConns>> /\ probeFrame

TlsFallbackCtx ==
  /\ InFlight("tls", "dial")
  /\ \E e \in CtxErrs, d \in Durations, r \in TracedDialCtx, a \in ErrAddrs :
       /\ Finish([Result(FALSE, e, d) EXCEPT !.dns = r.dns, !.addr = a])
       /\ Looked(r.lookups, r.dns)
  /\ UNCHANGED <<deadlinePassed, openConns>> /\ probeFrame

\* --- udp.Ping
\* stats.Meta["sent"], set after the read whatever its outcome.
Sent(st) == [st EXCEPT !.meta = @ \cup {"sent"}]

\* resolver.LookupIP(pingCtx, "ip", host), only for a host that is no IP;
\* stats.DNSDuration = time.Since(startDNS) on each of its outcomes.
UdpDnsOk ==
  /\ InFlight("udp", "dns")
  /\ phase' = "dial"
  /\ \E n \in DnsTimes : stats' = [stats EXCEPT !.dns = n] /\ Looked(1, n)
  /\ UNCHANGED <<deadlinePassed, openConns, loopPc>> /\ probeFrame

\* A failed lookup whose Result says the payload was sent.
UdpDnsFailSent ==
  /\ InFlight("udp", "dns")
  /\ \E d \in Durations, n \in DnsTimes :
       /\ Finish(Sent([Result(FALSE, "neterr", d) EXCEPT !.dns = n]))
       /\ attempt' = Did(Resolved(attempt, 1, n), "dnsfail")
  /\ UNCHANGED <<deadlinePassed, openConns>> /\ probeFrame

\* Lookup error, or no addresses returned.
UdpDnsFail ==
  /\ InFlight("udp", "dns")
  /\ \E d \in Durations, n \in DnsTimes :
       /\ ReturnStats(FALSE, "neterr", d, n, "none")
       /\ attempt' = Did(Resolved(attempt, 1, n), "dnsfail")
  /\ UNCHANGED <<deadlinePassed, openConns>> /\ probeFrame

UdpDnsCtx ==
  /\ InFlight("udp", "dns")
  /\ \E e \in CtxErrs, d \in Durations, n \in DnsTimes :
       /\ ReturnStats(FALSE, e, d, n, "none")
       /\ attempt' = Did(Resolved(attempt, 1, n), "dnsfail")
  /\ UNCHANGED <<deadlinePassed, openConns>> /\ probeFrame

\* stats.Address = targetAddr, then p.dialer.DialContext(pingCtx, "udp",
\* targetAddr) to the IP address; defer conn.Close() is registered;
\* SetReadDeadline(pingCtx's deadline).
UdpDialOk ==
  /\ InFlight("udp", "dial")
  /\ openConns' = openConns + 1
  /\ phase' = "write"
  /\ stats' = [stats EXCEPT !.addr = "peer"]
  /\ attempt' = Did(attempt, "socket")
  /\ UNCHANGED <<deadlinePassed, loopPc>> /\ probeFrame

UdpDialFail ==
  /\ InFlight("udp", "dial")
  /\ \E d \in Durations :
       Finish([Result(FALSE, "neterr", d) EXCEPT !.addr = "peer"])
  /\ UNCHANGED <<deadlinePassed, openConns, attempt>> /\ probeFrame

UdpDialCtx ==
  /\ InFlight("udp", "dial")
  /\ \E e \in CtxErrs, d \in Durations :
       Finish([Result(FALSE, e, d) EXCEPT !.addr = "peer"])
  /\ UNCHANGED <<deadlinePassed, openConns, attempt>> /\ probeFrame

\* conn.Write(sendData)
UdpWriteOk ==
  /\ InFlight("udp", "write")
  /\ phase' = "read"
  /\ attempt' = Did(attempt, "write")
  /\ UNCHANGED <<deadlinePassed, openConns, stats, loopPc>>
  /\ probeFrame

UdpWriteFail ==
  /\ InFlight("udp", "write")
  /\ openConns' = openConns - 1
  /\ \E d \in Durations : Return(FALSE, "neterr", d)
  /\ UNCHANGED <<deadlinePassed, attempt>> /\ probeFrame

\* conn.Read(readBuf): a datagram arrives before the read deadline, a socket
\* error is surfaced, or the read deadline passes. The read takes no context.
UdpReadOk ==
  /\ InFlight("udp", "read") /\ ~deadlinePassed
  /\ openConns' = openConns - 1
  /\ attempt' = Did([attempt EXCEPT !.received = TRUE], "read")
  /\ \E d \in Durations : Finish(Sent(Result(TRUE, "nil", d)))
  /\ UNCHANGED deadlinePassed /\ probeFrame

UdpReadFail ==
  /\ InFlight("udp", "read")
  /\ openConns' = openConns - 1
  /\ \E d \in Durations : Finish(Sent(Result(FALSE, "neterr", d)))
  /\ attempt' = Did(attempt, "read")
  /\ UNCHANGED deadlinePassed /\ probeFrame

\* A read that failed on the deadline and reported the target reachable.
UdpReadDeadlineConnected ==
  /\ InFlight("udp", "read") /\ deadlinePassed
  /\ openConns' = openConns - 1
  /\ \E d \in Durations : Return(TRUE, "nil", d)
  /\ UNCHANGED <<deadlinePassed, attempt>> /\ probeFrame

UdpReadDeadline ==
  /\ InFlight("udp", "read") /\ deadlinePassed
  /\ openConns' = openConns - 1
  /\ \E d \in Durations : Finish(Sent(Result(FALSE, "deadline", d)))
  /\ attempt' = Did(attempt, "read")
  /\ UNCHANGED deadlinePassed /\ probeFrame

\* --- http.Ping
\* The transport dials the proxy when one is configured, the target
\* otherwise; the dial resolves a host name and parses a literal IP.
HttpLookups == IF proxyByName \/ ~hostIsIP THEN 1 ELSE 0

\* The time n lookups take.
LookupTimes(n) == IF n > 0 THEN DnsTimes ELSE {0}

\* What the Trace holds of a checkpoint's value v: the hooks are installed
\* only when p.trace is set, the Trace is left at its zero value otherwise.
Traced(v, zero) == IF trace THEN v ELSE zero

\* stats.Extra = &trace, only when p.trace is set.
HttpExtra == IF trace THEN "trace" ELSE "none"

\* Stats after client.Do returned: stats.DNSDuration = trace.DNSDuration and
\* stats.Address = trace.address, t being the time the lookup took and a the
\* address the connect started to.
AfterDo(st, t, a) ==
  [st EXCEPT !.dns = Traced(t, 0), !.addr = Traced(a, "none"),
             !.extra = HttpExtra]

\* p.client.Do(req), the request carrying ctx: resolve, connect, handshake,
\* write, wait for the response header; then stats.Meta["status"].
HttpDoOk ==
  /\ InFlight("http", "do")
  /\ openConns' = openConns + 1
  /\ phase' = "body"
  /\ \E t \in LookupTimes(HttpLookups) :
       /\ stats' = [AfterDo(stats, t, "peer") EXCEPT !.meta = {"status"}]
       /\ attempt' = [attempt EXCEPT !.lookups = @ + HttpLookups,
                                     !.dnsTime = t, !.connectAddr = "peer",
                                     !.response = TRUE]
  /\ UNCHANGED <<deadlinePassed, loopPc>> /\ probeFrame

\* The transport closes a connection it opened before returning the error.
HttpDoFail ==
  /\ InFlight("http", "do")
  /\ \E d \in Durations, t \in LookupTimes(HttpLookups), a \in ErrAddrs :
       /\ Finish(AfterDo(Result(FALSE, "neterr", d), t, a))
       /\ attempt' = [attempt EXCEPT !.lookups = @ + HttpLookups,
                                     !.dnsTime = t, !.connectAddr = a]
  /\ UNCHANGED <<deadlinePassed, openConns>> /\ probeFrame

\* The context is done: Do may end before it resolves or before it connects.
HttpDoCtx ==
  /\ InFlight("http", "do")
  /\ \E e \in CtxErrs, d \in Durations, k \in {0, HttpLookups} :
       \E t \in LookupTimes(k),
          a \in (IF k < HttpLookups THEN {"none"} ELSE ErrAddrs) :
         /\ Finish(AfterDo(Result(FALSE, e, d), t, a))
         /\ attempt' = [attempt EXCEPT !.lookups = @ + k, !.dnsTime = t,
                                       !.connectAddr = a]
  /\ UNCHANGED <<deadlinePassed, openConns>> /\ probeFrame

\* if n > 0 { stats.Meta["bytes"] = Int(n) }
WithBytes(st, some) == IF some THEN [st EXCEPT !.meta = @ \cup {"bytes"}] ELSE st

\* io.Copy(io.Discard, resp.Body), which read some bytes or none;
\* defer resp.Body.Close() releases the connection (DisableKeepAlives).
HttpBodyOk ==
  /\ InFlight("http", "body")
  /\ openConns' = openConns - 1
  /\ \E d \in Durations, some \in BOOLEAN :
       Finish(WithBytes(Result(TRUE, "nil", d), some))
  /\ UNCHANGED <<deadlinePassed, attempt>> /\ probeFrame

\* A body read error that leaves the Result connected.
HttpBodyFailStaysConnected ==
  /\ InFlight("http", "body")
  /\ openConns' = openConns - 1
  /\ attempt' = [attempt EXCEPT !.bodyFailed = TRUE]
  /\ \E d \in Durations, some \in BOOLEAN :
       Finish(WithBytes(Result(TRUE, "neterr", d), some))
  /\ UNCHANGED deadlinePassed /\ probeFrame

\* err != nil: stats.Connected = false, stats.Error = "read body failed: ..."
HttpBodyFail ==
  /\ InFlight("http", "body")
  /\ openConns' = openConns - 1
  /\ attempt' = [attempt EXCEPT !.bodyFailed = TRUE]
  /\ \E d \in Durations, some \in BOOLEAN :
       Finish(WithBytes(Result(FALSE, "neterr", d), some))
  /\ UNCHANGED deadlinePassed /\ probeFrame

HttpBodyCtx ==
  /\ InFlight("http", "body")
  /\ openConns' = openConns - 1
  /\ attempt' = [attempt EXCEPT !.bodyFailed = TRUE]
  /\ \E e \in CtxErrs, d \in Durations, some \in BOOLEAN :
       Finish(WithBytes(Result(FALSE, e, d), some))
  /\ UNCHANGED deadlinePassed /\ probeFrame

Probe ==
  \/ DeadlineExpire
  \/ TcpDialOk \/ TcpDialFail \/ TcpDialCtx
  \/ TlsDialOk \/ TlsDialFail \/ TlsFallbackOk \/ TlsFallbackFail \/ TlsFallbackCtx
  \/ UdpDnsOk \/ UdpDnsFail \/ UdpDnsCtx
  \/ UdpDialOk \/ UdpDialFail \/ UdpDialCtx
  \/ UdpWriteOk \/ UdpWriteFail
  \/ UdpReadOk \/ UdpReadFail \/ UdpReadDeadline
  \/ HttpDoOk \/ HttpDoFail \/ HttpDoCtx
  \/ HttpBodyOk \/ HttpBodyFail \/ HttpBodyCtx

\* ------------------------------------------------------------ runCommand
\* case <-sigs: SIGINT or SIGTERM arrives.
MainSignal ==
  /\ Alive /\ mainPc = "select"
  /\ signalled' = TRUE
  /\ mainPc' = "stop"
  /\ UNCHANGED <<cfgVars, stopVars, statVars, groupVars, timerVars, probeVars,
                 outVars, summary, snapshot, histVars, apiStops, pingPc,
                 watcherPc, loopPc>>

\* case <-pinger.Done()
MainDone ==
  /\ Alive /\ mainPc = "select" /\ DoneClosed
  /\ mainPc' = "stop"
  /\ UNCHANGED <<cfgVars, stopVars, statVars, groupVars, timerVars, probeVars,
                 outVars, signalled, summary, snapshot, histVars, apiStops,
                 pingPc, watcherPc, loopPc>>

\* pinger.Stop()
MainStop ==
  /\ Alive /\ mainPc = "stop"
  /\ Stop
  /\ mainPc' = "summarize"
  /\ UNCHANGED <<cfgVars, statVars, groupVars, timerVars, probeVars, outVars,
                 signalled, summary, snapshot, histVars, apiStops, pingPc,
                 watcherPc, loopPc>>

\* pinger.Summarize(), after which runCommand returns and the process exits.
MainSummarize ==
  /\ Alive /\ mainPc = "summarize"
  /\ summary' = SummaryData
  /\ snapshot' = [okCount |-> okCount, okSum |-> okSum, lines |-> lines,
                  loopDone |-> (loopPc = "done")]
  /\ mainPc' = "exit"
  /\ UNCHANGED <<cfgVars, stopVars, statVars, groupVars, timerVars, probeVars,
                 outVars, signalled, histVars, apiStops, pingPc, watcherPc,
                 loopPc>>

\* Another holder of the *Pinger calls the exported Stop().
ApiStop ==
  /\ Alive /\ apiStops < MaxApiStops
  /\ Stop
  /\ apiStops' = apiStops + 1
  /\ UNCHANGED <<cfgVars, statVars, groupVars, timerVars, probeVars, outVars,
                 mainVars, histVars, pingPc, watcherPc, loopPc>>

Scheduler ==
  \/ PingStart \/ PingInit \/ Watcher \/ LoopStart \/ TimerFire \/ LoopFire
  \/ LoopCancelled \/ LoopLogStats \/ LoopIncTotal \/ LoopCounterReached
  \/ LoopNext \/ PingWait

Main == MainSignal \/ MainDone \/ MainStop \/ MainSummarize \/ ApiStop

Next == Scheduler \/ Probe \/ Main

Spec == Init /\ [][Next]_vars

\* ------------------------------------------------- Ping() under fairness
\* The Pinger used as a library: its holder calls Stop() at any moment and
\* stays alive. The goroutines of Ping() are scheduled fairly, time passes,
\* and a probe's blocking operation ends once it can: on its context being
\* done or its deadline having passed; a write does not block. For the TLS
\* dial, which has no such exit in the code, the ending is the assumption
\* under which the run is considered.
LoopStep ==
  \/ LoopStart \/ LoopFire \/ LoopCancelled \/ LoopLogStats \/ LoopIncTotal
  \/ LoopCounterReached \/ LoopNext

ProbeExit ==
  \/ TcpDialCtx \/ TlsFallbackCtx \/ UdpDnsCtx \/ UdpDialCtx \/ HttpDoCtx
  \/ HttpBodyCtx \/ UdpReadDeadline \/ UdpWriteOk \/ UdpWriteFail
  \/ TlsDialOk \/ TlsDialFail

LibNext == Scheduler \/ Probe \/ ApiStop

Fairness ==
  /\ WF_vars(PingStart \/ PingInit \/ PingWait)
  /\ WF_vars(Watcher)
  /\ WF_vars(LoopStep)
  /\ WF_vars(TimerFire)
  /\ WF_vars(DeadlineExpire)
  /\ WF_vars(ProbeExit)

FairSpec == Init /\ [][LibNext]_vars /\ Fairness

\* --------------------------------------------- functions outside the run
\* Strings are sequences of byte values. The run is not started while one
\* of these functions is examined.
NoRun == RunInit /\ counter = 0 /\ proto = "tcp" /\ hostIsIP

runFrame ==
  UNCHANGED <<counter, proto, hostIsIP, trace, proxyByName, stopVars, statVars,
              groupVars, timerVars, probeVars, outVars, mainVars, histVars,
              apiStops, pingPc, watcherPc, loopPc>>

\* a < b in the byte-wise order of Go's string comparison
RECURSIVE StrLess(_, _)
StrLess(a, b) ==
  IF a = <<>> THEN b # <<>>
  ELSE IF b = <<>> THEN FALSE
  ELSE IF Head(a) # Head(b) THEN Head(a) < Head(b)
  ELSE StrLess(Tail(a), Tail(b))

\* --- Stats.FormatMeta
SpaceStr  == <<32>>                     \* " "
EqualsStr == <<61>>                     \* "="
NilStr    == <<60, 110, 105, 108, 62>>  \* "<nil>"

\* Keys and values a Meta map is built from: "a", "ab", "B", "b", "aa" and
\* "1", "200", a nil Stringer.
KeyPool == << <<97>>, <<97, 98>>, <<66>>, <<98>>, <<97, 97>> >>
MetaKeys == {KeyPool[i] : i \in 1..MaxMetaKeys}
MetaValues ==
  {[nil |-> FALSE, str |-> <<49>>], [nil |-> FALSE, str |-> <<50, 48, 48>>],
   [nil |-> TRUE, str |-> <<>>]}

\* The sequences that list every element of set S once: the orders in which
\* `for key := range s.Meta` may deliver the keys.
Orders(S) ==
  {o \in [1..Cardinality(S) -> S] : \A i, j \in DOMAIN o : i # j => o[i] # o[j]}

RECURSIVE Insert(_, _)
Insert(k, sorted) ==
  IF sorted = <<>> THEN <<k>>
  ELSE IF StrLess(Head(sorted), k) THEN <<Head(sorted)>> \o Insert(k, Tail(sorted))
  ELSE <<k>> \o sorted

\* The keys left in the order of the map iteration.
Unsorted(keys) == keys

\* sort.Strings(keys)
RECURSIVE SortStrings(_)
SortStrings(keys) ==
  IF keys = <<>> THEN <<>> ELSE Insert(Head(keys), SortStrings(Tail(keys)))

\* fmt.Sprintf("%s=%s", key, valueStr), valueStr being "<nil>" for a nil value
MetaPart(key, val) ==
  key \o EqualsStr \o (IF val.nil THEN NilStr ELSE val.str)

\* strings.Join(parts, sep)
RECURSIVE Join(_, _)
Join(parts, sep) ==
  IF parts = <<>> THEN <<>>
  ELSE IF Len(parts) = 1 THEN parts[1]
  ELSE parts[1] \o sep \o Join(Tail(parts), sep)

\* FormatMeta on map `meta`, whose iteration delivers the keys as `order`.
FormatMeta(meta, order) ==
  IF DOMAIN meta = {} THEN <<>>
  ELSE LET keys == SortStrings(order)
           parts == [i \in 1..Len(keys) |-> MetaPart(keys[i], meta[keys[i]])]
       IN Join(parts, SpaceStr)

MetaInit ==
  /\ NoRun /\ protoCall = NoProtoCall /\ reg = NoRegistry
  /\ tracer = NoTracer /\ timing = NoTiming
  /\ \E K \in SUBSET MetaKeys :
       \E m \in [K -> MetaValues], o \in Orders(K) :
         metaCall = [pc |-> "ready", meta |-> m, order |-> o, out |-> <<>>]

FormatMetaCall ==
  /\ metaCall.pc = "ready"
  /\ metaCall' = [metaCall EXCEPT !.pc = "done",
                                  !.out = FormatMeta(metaCall.meta, metaCall.order)]
  /\ UNCHANGED <<protoCall, reg, tracer, timing>> /\ runFrame

MetaSpec == MetaInit /\ [][FormatMetaCall]_vars

\* --- Protocol.String and NewProtocol
TCP   == 0
HTTP  == 1
HTTPS == 2
UDP   == 3
NamedProtocols == {TCP, HTTP, HTTPS, UDP}

\* func (protocol Protocol) String() string
ProtocolString(p) ==
  CASE p = TCP   -> <<116, 99, 112>>              \* "tcp"
    [] p = HTTP  -> <<104, 116, 116, 112>>        \* "http"
    [] p = HTTPS -> <<104, 116, 116, 112, 115>>   \* "https"
    [] p = UDP   -> <<117, 100, 112>>             \* "udp"
    [] OTHER     -> <<117, 110, 107, 110, 111, 119, 110>>  \* "unknown"

\* A byte left as it is.
SameByte(c) == c
\* The lower-case form of a byte: 'A'..'Z' are moved to 'a'..'z'.
LowerByte(c) == IF c \in 65..90 THEN c + 32 ELSE c
\* strings.ToLower(s)
ToLower(s) == [i \in 1..Len(s) |-> LowerByte(s[i])]

\* func NewProtocol(protocol string) (Protocol, error)
NewProtocol(s) ==
  LET l == ToLower(s) IN
  CASE l = ProtocolString(TCP)   -> [proto |-> TCP, err |-> "nil"]
    [] l = ProtocolString(HTTP)  -> [proto |-> HTTP, err |-> "nil"]
    [] l = ProtocolString(HTTPS) -> [proto |-> HTTPS, err |-> "nil"]
    [] l = ProtocolString(UDP)   -> [proto |-> UDP, err |-> "nil"]
    [] OTHER -> [proto |-> 0, err |-> "ErrProtocolNotSupported"]

\* Lower-case words given to NewProtocol in every mix of letter case: what
\* String() returns for the protocols 0..4, and "", "tc", "tcpx", "ftp",
\* "tcp " and "ucp".
Words ==
  {ProtocolString(p) : p \in 0..4} \cup
  {<<>>, <<116, 99>>, <<116, 99, 112, 120>>, <<102, 116, 112>>,
   <<116, 99, 112, 32>>, <<117, 99, 112>>}

\* Word w with the letters at the positions in `upper` in upper case.
Cased(w, upper) ==
  [i \in 1..Len(w) |-> IF i \in upper /\ w[i] \in 97..122 THEN w[i] - 32 ELSE w[i]]

ProtoInit ==
  /\ NoRun /\ metaCall = NoMetaCall /\ reg = NoRegistry
  /\ tracer = NoTracer /\ timing = NoTiming
  /\ \E w \in Words : \E u \in SUBSET (1..Len(w)) :
       protoCall = [pc |-> "ready", word |-> w, upper |-> u,
                    input |-> Cased(w, u), out |-> [proto |-> 0, err |-> "nil"]]

NewProtocolCall ==
  /\ protoCall.pc = "ready"
  /\ protoCall' = [protoCall EXCEPT !.pc = "done",
                                    !.out = NewProtocol(protoCall.input)]
  /\ UNCHANGED <<metaCall, reg, tracer, timing>> /\ runFrame

ProtoSpec == ProtoInit /\ [][NewProtocolCall]_vars

\* --- Register, Load and cli.Initialize
Factories == {"f1", "f2"}
\* The values a Protocol argument takes: the named ones and one more.
ProtocolArgs == NamedProtocols \cup {4}

\* The registry with the first factory registered for a protocol kept.
PutIfAbsent(m, p, f) ==
  [q \in DOMAIN m \cup {p} |-> IF q \in DOMAIN m THEN m[q] ELSE f]
\* pinger[protocol] = factory
Put(m, p, f) == [q \in DOMAIN m \cup {p} |-> IF q = p THEN f ELSE m[q]]

\* func Register(protocol Protocol, factory Factory)
Register(r, p, f) ==
  [r EXCEPT !.pinger = Put(r.pinger, p, f),
            !.log = Append(r.log, [p |-> p, f |-> f])]

\* func Load(protocol Protocol) (Factory, bool): factory, ok := pinger[protocol]
Load(m, p) ==
  IF p \in DOMAIN m THEN [valid |-> TRUE, p |-> p, factory |-> m[p], ok |-> TRUE]
                    ELSE [valid |-> TRUE, p |-> p, factory |-> "nil", ok |-> FALSE]

RegInit ==
  /\ NoRun /\ metaCall = NoMetaCall /\ protoCall = NoProtoCall
  /\ tracer = NoTracer /\ timing = NoTiming
  /\ reg = NoRegistry

RegisterCall ==
  /\ reg.registers < MaxRegisters
  /\ \E p \in ProtocolArgs, f \in Factories :
       reg' = [Register(reg, p, f) EXCEPT !.registers = @ + 1,
                                          !.loaded = NoLoad]
  /\ UNCHANGED <<metaCall, protoCall, tracer, timing>> /\ runFrame

\* cli.Initialize registers a factory for HTTP, HTTPS, TCP and UDP, in this
\* order; main calls it once.
InitializeCall ==
  /\ ~reg.initialized
  /\ reg' = [Register(Register(Register(Register(reg, HTTP, "cli.http"),
                                        HTTPS, "cli.https"),
                               TCP, "cli.tcp"),
                      UDP, "cli.udp")
               EXCEPT !.initialized = TRUE, !.loaded = NoLoad]
  /\ UNCHANGED <<metaCall, protoCall, tracer, timing>> /\ runFrame

LoadCall ==
  /\ \E p \in ProtocolArgs : reg' = [reg EXCEPT !.loaded = Load(reg.pinger, p)]
  /\ UNCHANGED <<metaCall, protoCall, tracer, timing>> /\ runFrame

RegNext == RegisterCall \/ InitializeCall \/ LoadCall

RegSpec == RegInit /\ [][RegNext]_vars

\* --- http.Trace: WithTrace's hooks and String
\* The zero time.Time of a start marker that was never set.
NoTime == -1

\* Trace{} with the hooks installed at clock 0 (start := time.Now()), for a
\* request over TLS or not; besides the Trace's fields and WithTrace's
\* locals: the lookups and dials under way, the start hooks that fired, and
\* the clock and the sum of the four phases when WroteRequest fired.
TraceInit ==
  /\ NoRun /\ metaCall = NoMetaCall /\ protoCall = NoProtoCall
  /\ reg = NoRegistry /\ timing = NoTiming
  /\ \E s \in BOOLEAN :
       tracer = [pc |-> "active", https |-> s, now |-> 0, start |-> 0,
                 dnsStart |-> NoTime, connectStart |-> NoTime,
                 tlsStart |-> NoTime, writeStart |-> NoTime,
                 DNSDuration |-> 0, ConnectDuration |-> 0, TLSDuration |-> 0,
                 WroteRequestDuration |-> 0, WaitResponseDuration |-> 0,
                 tls |-> FALSE, address |-> "none",
                 dnsOpen |-> FALSE, dials |-> 0, connected |-> FALSE,
                 tlsOpen |-> FALSE, tlsDone |-> FALSE, gotByte |-> FALSE,
                 started |-> {}, wroteAt |-> NoTime, wroteSum |-> 0,
                 line |-> <<>>]

traceFrame == UNCHANGED <<metaCall, protoCall, reg, timing>> /\ runFrame

Tracing == tracer.pc = "active"

\* time.Since(t) at the tracer's clock.
Since(t) == tracer.now - t

\* The clock advances between two hooks.
TraceTick ==
  /\ Tracing /\ tracer.now < MaxClock
  /\ tracer' = [tracer EXCEPT !.now = @ + 1]
  /\ traceFrame

\* DNSStart: the dial resolves the host name before it connects.
DNSStart ==
  /\ Tracing /\ ~tracer.dnsOpen /\ tracer.dials = 0 /\ ~tracer.connected
  /\ tracer' = [tracer EXCEPT !.dnsStart = tracer.now, !.dnsOpen = TRUE,
                              !.started = @ \cup {"dns"}]
  /\ traceFrame

\* DNSDone
DNSDone ==
  /\ Tracing /\ tracer.dnsOpen
  /\ tracer' = [tracer EXCEPT !.DNSDuration = Since(tracer.dnsStart),
                              !.dnsOpen = FALSE]
  /\ traceFrame

\* ConnectStart: the dialer starts a connect to one address of the host; for
\* a host with several addresses it tries them in turn and races the two
\* address families, so a connect may start while another is under way.
ConnectStart ==
  /\ Tracing /\ ~tracer.dnsOpen /\ ~tracer.connected
  /\ tracer.dials < MaxDials
  /\ tracer' = [tracer EXCEPT !.connectStart = tracer.now,
                              !.address = "peer", !.dials = @ + 1,
                              !.started = @ \cup {"connect"}]
  /\ traceFrame

\* ConnectDone, for a connect that succeeded (the first to do so is the
\* request's connection) or failed; the connect that lost the race is
\* cancelled and reports its error when its dial returns.
ConnectDone ==
  /\ Tracing /\ tracer.dials > 0
  /\ \E ok \in (IF tracer.connected THEN {FALSE} ELSE BOOLEAN) :
       tracer' = [tracer EXCEPT !.ConnectDuration = Since(tracer.connectStart),
                                !.dials = @ - 1,
                                !.connected = @ \/ ok]
  /\ traceFrame

\* TLSHandshakeStart, on the request's connection of an https request.
TLSHandshakeStart ==
  /\ Tracing /\ tracer.https /\ tracer.connected
  /\ ~tracer.tlsOpen /\ ~tracer.tlsDone
  /\ tracer' = [tracer EXCEPT !.tlsStart = tracer.now, !.tls = TRUE,
                              !.tlsOpen = TRUE, !.started = @ \cup {"tls"}]
  /\ traceFrame

\* TLSHandshakeDone
TLSHandshakeDone ==
  /\ Tracing /\ tracer.tlsOpen
  /\ tracer' = [tracer EXCEPT !.TLSDuration = Since(tracer.tlsStart),
                              !.tlsOpen = FALSE, !.tlsDone = TRUE]
  /\ traceFrame

\* The request's connection is ready for the request.
ConnReady == tracer.connected /\ (tracer.https => tracer.tlsDone)

\* elapsed - t.TLSDuration - t.ConnectDuration - t.DNSDuration
WroteRequestDuration(elapsed) ==
  elapsed - tracer.TLSDuration - tracer.ConnectDuration - tracer.DNSDuration

\* WroteRequest
WroteRequest ==
  /\ Tracing /\ ConnReady /\ tracer.wroteAt = NoTime
  /\ LET w == WroteRequestDuration(Since(tracer.start)) IN
       tracer' = [tracer EXCEPT
                    !.WroteRequestDuration = w,
                    !.writeStart = tracer.now,
                    !.wroteAt = tracer.now,
                    !.wroteSum = tracer.DNSDuration + tracer.ConnectDuration
                                   + tracer.TLSDuration + w]
  /\ traceFrame

\* GotFirstResponseByte: the server may answer before the request is written.
GotFirstResponseByte ==
  /\ Tracing /\ ConnReady /\ ~tracer.gotByte
  /\ tracer' = [tracer EXCEPT
                  !.gotByte = TRUE,
                  !.WaitResponseDuration =
                     IF tracer.writeStart # NoTime
                       THEN Since(tracer.writeStart)
                       ELSE WroteRequestDuration(Since(tracer.start))
                              - tracer.WroteRequestDuration]
  /\ traceFrame

\* func (t *Trace) String(): the names rendered, in order.
TraceString(t) ==
  <<"connect">> \o (IF t.tls THEN <<"tls">> ELSE <<>>)
    \o <<"request", "wait_response", "response_body">>

\* The attempt ends, at any point of the request, and logStats renders
\* stats.Extra.
TraceEnd ==
  /\ Tracing
  /\ tracer' = [tracer EXCEPT !.pc = "ended", !.line = TraceString(tracer)]
  /\ traceFrame

TraceNext ==
  \/ TraceTick \/ DNSStart \/ DNSDone \/ ConnectStart \/ ConnectDone
  \/ TLSHandshakeStart \/ TLSHandshakeDone \/ WroteRequest
  \/ GotFirstResponseByte \/ TraceEnd

TraceSpec == TraceInit /\ [][TraceNext]_vars

\* --- the contexts of one attempt: NewPinger's timeout, the loop's pingCtx
\* and the probe's own context
\* Timeouts as configured, in seconds: negative, zero and positive ones.
Timeouts == -1..MaxTimeout

\* if timeout <= 0 { timeout = DefaultTimeout } in NewPinger, and
\* timeout := pinger.DefaultTimeout; if p.option.Timeout > 0 { ... } in the
\* probes.
Defaulted(t) == IF t <= 0 THEN DefaultTimeout ELSE t

Earlier(a, b) == IF a <= b THEN a ELSE b

\* A deadline set without regard to the parent's.
WithTimeoutOwn(parentDeadline, now, timeout) == now + timeout
\* context.WithTimeout(parent, timeout): the deadline of the derived context
\* is the parent's when that is the earlier one.
WithTimeout(parentDeadline, now, timeout) ==
  Earlier(parentDeadline, now + timeout)

\* The run's context has no deadline.
NoDeadline == MaxInt64

\* NewPinger(..., timeout) was called and the probe was built with
\* Option.Timeout; the loop waits for its timer.
TimingInit ==
  /\ NoRun /\ metaCall = NoMetaCall /\ protoCall = NoProtoCall
  /\ reg = NoRegistry /\ tracer = NoTracer
  /\ \E ts \in Timeouts, to \in Timeouts :
       timing = [pc |-> "fire", now |-> 0,
                 pingerArg |-> ts, timeout |-> Defaulted(ts),
                 optionTimeout |-> to,
                 runCancelled |-> FALSE,
                 pingDeadline |-> NoDeadline, pingCancelled |-> FALSE,
                 probeDeadline |-> NoDeadline, probeCancelled |-> FALSE,
                 firedAt |-> NoTime, enteredAt |-> NoTime,
                 returnedAt |-> NoTime, err |-> "none",
                 processed |-> FALSE]

timingFrame == UNCHANGED <<metaCall, protoCall, reg, tracer>> /\ runFrame

\* <-ctx.Done() of the run's context, of pingCtx and of the probe's context.
RunCtxDone == timing.runCancelled
PingCtxDone ==
  RunCtxDone \/ timing.pingCancelled \/ timing.now >= timing.pingDeadline
ProbeCtxDone ==
  PingCtxDone \/ timing.probeCancelled \/ timing.now >= timing.probeDeadline

\* The clock advances, in seconds, while the loop waits for the timer or
\* the probe is blocked: the statements between take no time on this clock.
\* A probe blocked in an operation that takes its context has returned
\* before the clock passes the moment the context was done.
TimingTick ==
  /\ timing.pc \in {"fire", "blocked"}
  /\ timing.now < MaxTime
  /\ ~(timing.pc = "blocked" /\ ProbeCtxDone)
  /\ timing' = [timing EXCEPT !.now = @ + 1]
  /\ timingFrame

\* The watcher returned context.Canceled: the run's context is cancelled.
TimingRunCancel ==
  /\ timing.pc \in {"enter", "blocked"} /\ ~timing.runCancelled
  /\ timing' = [timing EXCEPT !.runCancelled = TRUE]
  /\ timingFrame

\* pingCtx, pingCancel := context.WithTimeout(ctx, p.timeout)
TimingFire ==
  /\ timing.pc = "fire"
  /\ timing' = [timing EXCEPT
                  !.pc = "enter", !.firedAt = timing.now,
                  !.pingDeadline =
                     WithTimeout(NoDeadline, timing.now, timing.timeout)]
  /\ timingFrame

\* p.ping.Ping(pingCtx): ctx, cancel := context.WithTimeout(ctx, timeout)
TimingEnter ==
  /\ timing.pc = "enter"
  /\ timing' = [timing EXCEPT
                  !.pc = "blocked", !.enteredAt = timing.now,
                  !.probeDeadline =
                     WithTimeout(timing.pingDeadline, timing.now,
                                 Defaulted(timing.optionTimeout))]
  /\ timingFrame

\* The probe returns, its operation ended by the network or by its context;
\* defer cancel() runs.
TimingReturn ==
  /\ timing.pc = "blocked"
  /\ \E e \in (IF ProbeCtxDone
                 THEN (IF RunCtxDone THEN {"canceled"} ELSE {"deadline"})
                 ELSE {"nil", "neterr"}) :
       timing' = [timing EXCEPT !.pc = "cancel", !.returnedAt = timing.now,
                                !.err = e, !.probeCancelled = TRUE]
  /\ timingFrame

\* pingCancel()
TimingPingCancel ==
  /\ timing.pc = "cancel"
  /\ timing' = [timing EXCEPT !.pc = "log", !.pingCancelled = TRUE]
  /\ timingFrame

\* p.logStats(stats)
TimingLogStats ==
  /\ timing.pc = "log"
  /\ timing' = [timing EXCEPT !.pc = "done", !.processed = TRUE]
  /\ timingFrame

TimingNext ==
  \/ TimingTick \/ TimingRunCancel \/ TimingFire \/ TimingEnter
  \/ TimingReturn \/ TimingPingCancel \/ TimingLogStats

TimingSpec == TimingInit /\ [][TimingNext]_vars

\* ========================================================= properties
\* C1: after any sequence of attempts processed by logStats, the running
\* minimum is <= and the running maximum is >= the duration of every
\* processed attempt that had connected == true.
C1_MinMaxBracketRecorded ==
  \A d \in okDurations : minDuration <= d /\ d <= maxDuration

C1_Witness ==
  /\ Cardinality(okDurations) >= 2
  /\ failedTotal >= 1
  /\ minDuration < maxDuration

\* C2: the average Summarize reports is the sum of the durations of the
\* connected attempts divided by their number, whatever the mix of
\* successful and failed attempts (stated for a summary taken after the
\* attempt loop has returned).
C2_AverageOverSuccessful ==
  (summary.shown /\ snapshot.loopDone /\ snapshot.okCount > 0)
    => summary.avg = snapshot.okSum \div snapshot.okCount

\* C3: in every reachable state the failed counter is <= the total counter,
\* so the successful count Summarize would report is never negative.
C3_FailedAtMostTotal ==
  /\ failedTotal <= total
  /\ SummaryData.success >= 0

\* C4: when Stop() cancelled the run during an attempt and the probe's Result
\* carries the context-cancelled error, logStats leaves the failed counter
\* unchanged.
C4_CancelledNotCounted ==
  [][(loopPc = "log" /\ loopPc' = "inc" /\ stopClosed /\ stats.err = "canceled")
       => failedTotal' = failedTotal]_vars

C4_Witness ==
  /\ loopPc = "inc" /\ lastErr = "canceled" /\ stopClosed
  /\ lines = 2 /\ failedTotal = 1

\* C5: with a positive attempt limit N and no external Stop(), the run makes
\* exactly N attempts and writes exactly N lines, total never exceeds N, and
\* if every attempt connected the summary reports N probes, N successful and
\* 0 failed.
NoExternalStop == ~signalled /\ apiStops = 0

C5_ExactlyNAttempts ==
  (counter > 0 /\ NoExternalStop) =>
    /\ total <= counter /\ lines <= counter /\ attemptsStarted <= counter
    /\ (loopPc = "done" =>
          total = counter /\ lines = counter /\ attemptsStarted = counter)
    /\ (summary.shown =>
          /\ summary.total = counter /\ snapshot.lines = counter
          /\ (snapshot.okCount = counter =>
                summary.success = counter /\ summary.failed = 0))

C5_Witness ==
  /\ counter = MaxCounter /\ NoExternalStop
  /\ summary.shown /\ snapshot.okCount = counter
  /\ summary.total = counter /\ summary.success = counter

\* C6: Stop() is idempotent under any interleaving of its callers
\* (runCommand, other API callers, the attempt loop at the limit): the stop
\* channel is closed exactly once and no call panics.
C6_StopIdempotent ==
  /\ ~panicked
  /\ closeAttempts <= 1
  /\ (stopCalls > 0 => stopClosed /\ closeAttempts = 1)

C6_Witness == stopCalls >= 3 /\ closeAttempts = 1 /\ stopClosed

\* C7: once the channel returned by Done() is closed the pinger has stopped:
\* no attempt is in flight, and from then on no per-attempt line is written
\* and no statistic changes (stated for a run whose Ping() has started both
\* goroutines, so that the initialisation of the minimum is not in question).
C7_DoneMeansStopped ==
  [][(DoneClosed /\ pingPc = "wait") =>
       /\ loopPc # "inflight" /\ loopPc' # "inflight"
       /\ UNCHANGED <<statVars, lines>>]_vars

\* C8: for every probe variant, when the attempt's context is cancelled while
\* the probe is blocked in a network operation, the cancellation unblocks the
\* operation: the attempt can return its error-bearing Result at once, not
\* only when the deadline expires or the network answers.
BlockingPhases == {"dns", "dial", "tlsdial", "read", "do", "body"}

ReturnOnCancel ==
  /\ \/ TcpDialCtx \/ TlsFallbackCtx \/ UdpDnsCtx \/ UdpDialCtx
     \/ HttpDoCtx \/ HttpBodyCtx
  /\ stats'.err = "canceled"

C8_CancelUnblocksProbe ==
  (Alive /\ loopPc = "inflight" /\ phase \in BlockingPhases /\ ctxDone)
    => ENABLED ReturnOnCancel

\* C9: every attempt releases every connection it opened before or when it
\* returns: while no attempt is in flight no connection of an earlier attempt
\* is open.
C9_NoConnectionLeft ==
  loopPc # "inflight" => openConns = 0

\* C10: at most one attempt is in flight; attempt n's Result is processed by
\* logStats (statistics updated, line written) before attempt n+1 begins; the
\* first attempt is released by a timer of delay 0; the interval timer is
\* armed only after the previous Result was processed.
C10_OneAttemptAtATime ==
  /\ (loopPc \in {"inflight", "log"} => attemptsStarted = lines + 1)
  /\ (loopPc \notin {"inflight", "log"} => attemptsStarted = lines)
  /\ (phase # "none" => loopPc = "inflight")
  /\ (loopPc \in {"inflight", "log", "inc"} => total = attemptsStarted - 1)
  /\ (timer \in {"armed", "fired"} => lines = attemptsStarted /\ total = lines)
  /\ (attemptsStarted = 0 /\ timer \in {"armed", "fired"} => timerDelay = 0)
  /\ (attemptsStarted > 0 /\ timer \in {"armed", "fired"}
        => timerDelay = DefaultInterval)
  /\ (attemptsStarted > 0 => firstDelay = 0)

C10_Witness ==
  /\ attemptsStarted = 2 /\ loopPc = "inflight" /\ lines = 1 /\ firstDelay = 0

\* C12: a run that ends because Stop() was called or because the attempt
\* limit was reached never writes a "Pinger runtime error" line, whatever
\* the interleaving of the goroutines and whatever errors the attempts
\* returned.
C12_NoRuntimeErrorLine ==
  (stopCalls > 0 \/ CounterReached \/ pingPc = "returned") => errLines = 0

C12_Witness ==
  /\ pingPc = "returned" /\ groupErr = "canceled"
  /\ counter = 2 /\ total = 2 /\ failedTotal >= 1
  /\ apiStops = 0 /\ ~signalled

\* Nobody outside the loop has called Stop(): no API caller, and runCommand
\* has not reached its own call.
NoStopFromOutside == apiStops = 0 /\ mainPc \in {"select", "stop"}

\* C14: with attempt limit 0 the run never leaves the running state unless
\* Stop() is called: the loop does not end, nothing is cancelled, Done() is
\* not closed and Ping() does not return.
C14_UnboundedRunsUntilStop ==
  (counter = 0 /\ NoStopFromOutside) =>
    /\ loopPc # "done" /\ watcherPc # "done" /\ pingPc # "returned"
    /\ ~ctxDone /\ ~stopClosed /\ stopCalls = 0

C14_Witness ==
  /\ counter = 0 /\ NoStopFromOutside
  /\ total = MaxAttempts /\ failedTotal >= 1 /\ loopPc = "select"
  /\ timer = "fired"

\* A TLS-requested TCP probe has returned its Result to the loop.
TlsReturned == proto = "tls" /\ loopPc = "log"

\* C15: for a TLS-requested TCP probe, Extra is the certificate summary
\* exactly when the handshake succeeded, and it is the "TLS handshake
\* failed" note exactly when the handshake failed, whether the plain dial
\* that follows succeeds or fails.
C15_ExtraFollowsHandshake ==
  TlsReturned =>
    /\ (stats.extra = "cert" <=> ~attempt.tlsErr)
    /\ (stats.extra = "note" <=> attempt.tlsErr)

\* A UDP probe has returned its Result to the loop.
UdpReturned == proto = "udp" /\ loopPc = "log"

\* C16: a UDP probe reports connected == true if and only if a datagram was
\* read from the target before the read deadline; when none was, it reports
\* connected == false with a non-nil error.
C16_UdpConnectedIffDatagram ==
  UdpReturned =>
    /\ (stats.connected <=> attempt.received)
    /\ (stats.connected => stats.err = "nil")
    /\ (~attempt.received =>
          ~stats.connected /\ stats.err \in {"neterr", "canceled", "deadline"})

C16_Witness ==
  /\ UdpReturned /\ deadlinePassed /\ ~attempt.received
  /\ ~stats.connected /\ stats.err = "deadline" /\ openConns = 0

\* C17 as stated: when the target host is a literal IP address, the attempt
\* makes no DNS lookup and its Result has DNSDuration == 0, on every path
\* by which the probe returns.
C17_LiteralIPNoDns ==
  (loopPc = "log" /\ hostIsIP) => (attempt.lookups = 0 /\ stats.dns = 0)

\* C17, amended: the same for every probe that is not an HTTP probe sent
\* through a proxy named by a host name (there the proxy's name is resolved
\* and timed).
C17_LiteralIPNoDnsUnlessProxied ==
  (loopPc = "log" /\ hostIsIP /\ ~proxyByName) =>
    (attempt.lookups = 0 /\ stats.dns = 0)

C17_Witness ==
  /\ loopPc = "log" /\ hostIsIP /\ ~proxyByName
  /\ proto = "udp" /\ stats.err = "deadline" /\ attempt.lookups = 0
  /\ lines >= 1

\* C13: under fair scheduling, and probes that return once their context is
\* done or their deadline has passed, Ping() eventually returns after
\* Stop() is called at any point of the run, and likewise once a positive
\* attempt limit has been reached.
C13_PingReturnsAfterStop ==
  (stopClosed \/ CounterReached) ~> (pingPc = "returned")

C13_Witness ==
  /\ pingPc = "returned" /\ apiStops = 1 /\ counter = 0
  /\ total >= 2 /\ failedTotal = 0 /\ okCount < total

\* The text `s` cut at every byte c.
FirstIndex(s, c) == CHOOSE i \in 1..Len(s) : s[i] = c /\ \A j \in 1..(i - 1) : s[j] # c

RECURSIVE SplitOn(_, _)
SplitOn(s, c) ==
  IF \A i \in 1..Len(s) : s[i] # c THEN <<s>>
  ELSE <<SubSeq(s, 1, FirstIndex(s, c) - 1)>> \o
       SplitOn(SubSeq(s, FirstIndex(s, c) + 1, Len(s)), c)

Tokens(out) == IF out = <<>> THEN <<>> ELSE SplitOn(out, 32)
KeyOf(token) == SubSeq(token, 1, FirstIndex(token, 61) - 1)

\* C18: FormatMeta does not depend on the order in which the map delivers
\* its keys: the text is "" for an empty map, and otherwise it consists of
\* one key=value item per key, the items separated by single spaces and
\* standing in ascending order of their keys.
C18_FormatMetaSortedItems ==
  metaCall.pc = "done" =>
    LET m == metaCall.meta
        items == Tokens(metaCall.out)
    IN /\ (DOMAIN m = {} => metaCall.out = <<>>)
       /\ Len(items) = Cardinality(DOMAIN m)
       /\ \A k \in DOMAIN m :
            Cardinality({i \in DOMAIN items :
                           items[i] = k \o <<61>> \o
                             (IF m[k].nil THEN NilStr ELSE m[k].str)}) = 1
       /\ \A i, j \in DOMAIN items :
            i < j => StrLess(KeyOf(items[i]), KeyOf(items[j]))

C18_Witness ==
  /\ metaCall.pc = "done" /\ Cardinality(DOMAIN metaCall.meta) = 3
  /\ StrLess(metaCall.order[3], metaCall.order[1])
  /\ \E k \in DOMAIN metaCall.meta : metaCall.meta[k].nil
  /\ Len(Tokens(metaCall.out)) = 3

\* C19: NewProtocol accepts exactly the names tcp, http, https and udp, in
\* any mix of letter case, and returns an error wrapping
\* ErrProtocolNotSupported for every other string; for each named protocol
\* p, NewProtocol(p.String()) is p.
C19_NewProtocolAcceptsNames ==
  protoCall.pc = "done" =>
    LET o == protoCall.out
        w == protoCall.word
    IN /\ (o.err = "nil" <=> \E p \in NamedProtocols : w = ProtocolString(p))
       /\ \A p \in NamedProtocols : w = ProtocolString(p) => o.proto = p
       /\ (o.err # "nil" => o.err = "ErrProtocolNotSupported")

C19_Witness ==
  /\ protoCall.pc = "done" /\ protoCall.word = ProtocolString(HTTPS)
  /\ protoCall.upper = {1, 3, 5} /\ protoCall.input # protoCall.word
  /\ protoCall.out = [proto |-> HTTPS, err |-> "nil"]

\* The Register calls made so far for protocol p, and the latest of a set
\* of calls.
Written(p) == {i \in DOMAIN reg.log : reg.log[i].p = p}
Latest(S) == CHOOSE i \in S : \A j \in S : j <= i

\* C20: Load reports "not found" for a protocol that was never registered
\* and otherwise returns the factory registered for it most recently; the
\* registry holds what the Register calls wrote, whatever Loads were made;
\* after Initialize() every protocol NewProtocol returns is found.
C20_RegistryLastWriteWins ==
  /\ \A p \in ProtocolArgs :
       /\ p \in DOMAIN reg.pinger <=> Written(p) # {}
       /\ Written(p) # {} => reg.pinger[p] = reg.log[Latest(Written(p))].f
  /\ reg.loaded.valid =>
       LET p == reg.loaded.p IN
       /\ reg.loaded.ok <=> Written(p) # {}
       /\ reg.loaded.ok => reg.loaded.factory = reg.log[Latest(Written(p))].f
       /\ ~reg.loaded.ok => reg.loaded.factory = "nil"
       /\ (reg.initialized /\ p \in NamedProtocols) => reg.loaded.ok

C20_Witness ==
  /\ reg.initialized /\ reg.registers = 2
  /\ reg.loaded = [valid |-> TRUE, p |-> TCP, factory |-> "f2", ok |-> TRUE]
  /\ Cardinality(Written(TCP)) = 3

\* C21: Summarize renders the trip-time line only if at least one attempt
\* completed, and the no-probes-completed message otherwise; the counts are
\* rendered in either case. An attempt has completed once its per-attempt
\* line is written.
C21_TimesIffAttemptCompleted ==
  summary.shown =>
    /\ summary.times <=> snapshot.lines > 0
    /\ summary.total >= 0 /\ summary.success >= 0 /\ summary.failed >= 0

\* C22: the statistics have one writer: no Summarize read overlaps or
\* precedes an update by the attempt loop of the same run, that is,
\* Summarize runs only when the loop has returned.
C22_SummarizeAfterLoop == summary.shown => snapshot.loopDone

\* C28: the successful count Summarize reports is the number of processed
\* Results with connected == true, and total = successful + failed, also
\* when attempts were interrupted by cancellation (stated for a Summarize
\* that ran after the loop returned).
C28_SuccessIsConnectedCount ==
  (summary.shown /\ snapshot.loopDone) =>
    /\ summary.success = snapshot.okCount
    /\ summary.total = summary.success + summary.failed

\* The running minimum, maximum and sum of durations.
durationStats == <<minDuration, maxDuration, totalDuration>>

\* C27: processing a Result with connected == false leaves the running
\* minimum, maximum and sum of durations unchanged; once Ping() has set the
\* minimum to its starting value, the three change only in a logStats call
\* on a Result with connected == true.
C27_DisconnectedLeavesDurations ==
  [][/\ (loopPc = "log" /\ loopPc' = "inc" /\ ~stats.connected)
          => durationStats' = durationStats
     /\ (durationStats' # durationStats /\ pingPc # "init")
          => (loopPc = "log" /\ loopPc' = "inc" /\ stats.connected)]_vars

C27_Witness ==
  /\ loopPc = "inc" /\ lastErr = "neterr" /\ lines = 2
  /\ okCount = 1 /\ totalDuration = okSum /\ minDuration = maxDuration
  /\ minDuration = 1

\* C29: every Result a probe returns, on any exit path of any variant, has
\* connected == true if and only if Error == nil, so its line carries the
\* parenthesized error reason exactly when its status word is "Failed"; an
\* error of a probe reaches the scheduler only inside the Result: the error
\* Ping()'s goroutines return is nil or context.Canceled.
C29_ConnectedIffNoError ==
  /\ loopPc = "log" =>
       /\ stats.connected <=> stats.err = "nil"
       /\ HasErrorDetail(stats) <=> StatusWord(stats) = "Failed"
  /\ groupErr \in {"nil", "canceled"}

C29_Witness ==
  /\ loopPc = "log" /\ proto = "http" /\ attempt.response /\ attempt.bodyFailed
  /\ ~stats.connected /\ stats.err = "neterr" /\ "status" \in stats.meta

\* logStats processes the Result of an HTTP attempt that received the
\* response header and then failed to read the body.
LogsBodyFailure ==
  /\ loopPc = "log" /\ loopPc' = "inc"
  /\ proto = "http" /\ attempt.response /\ attempt.bodyFailed

\* C25: an HTTP attempt that receives the response header and fails to read
\* the body returns connected == false with a non-nil error, is counted as a
\* failed attempt, and its duration is not added to min/max/sum.
C25_BodyFailureCountsFailed ==
  [][LogsBodyFailure =>
       /\ ~stats.connected /\ stats.err # "nil"
       /\ failedTotal' = failedTotal + 1
       /\ durationStats' = durationStats]_vars

\* C25 as the code has it: the attempt is counted as failed unless the body
\* read failed with context.Canceled, which logStats does not count.
C25_BodyFailureCountsFailedUnlessCancelled ==
  [][LogsBodyFailure =>
       /\ ~stats.connected /\ stats.err # "nil"
       /\ failedTotal' = failedTotal + (IF stats.err = "canceled" THEN 0 ELSE 1)
       /\ durationStats' = durationStats]_vars

C25_Witness ==
  /\ loopPc = "log" /\ proto = "http" /\ attempt.response /\ attempt.bodyFailed
  /\ stats.err = "neterr" /\ stats.duration = 2 /\ stats.meta = {"status", "bytes"}
  /\ okCount = 1 /\ failedTotal = 0

\* An HTTP attempt returned after a response header was received.
HttpResponded == loopPc = "log" /\ proto = "http" /\ attempt.response

\* C24: for every HTTP attempt in which a response was received, Meta holds
\* the status code, the byte count of the body read and the body-transfer
\* time, whatever the body length.
C24_HttpMetaComplete ==
  HttpResponded => {"status", "bytes", "body_time"} \subseteq stats.meta

\* An HTTP attempt returned.
HttpReturned == loopPc = "log" /\ proto = "http"

\* C26: for every HTTP attempt, with tracing enabled or not, Address is the
\* address seen when the connect started and DNSDuration is the time
\* between the start and the end of the lookup.
C26_AddressAndDnsFromCheckpoints ==
  HttpReturned =>
    /\ stats.addr = attempt.connectAddr
    /\ stats.dns = attempt.dnsTime

\* The probe returns because the attempt's deadline passed.
ReturnOnDeadline ==
  /\ \/ TcpDialCtx \/ TlsFallbackCtx \/ UdpDnsCtx \/ UdpDialCtx
     \/ UdpReadDeadline \/ HttpDoCtx \/ HttpBodyCtx
  /\ stats'.err = "deadline"

\* A TCP attempt, TLS-requested or plain, returned.
TcpReturned == loopPc = "log" /\ proto \in {"tcp", "tls"}

\* C30: every blocking step of an attempt, the dial and handshake of a
\* TLS-requested TCP probe included, is bounded by the attempt's deadline:
\* once the deadline has passed the probe can return its Result; and the
\* time a TCP probe spent resolving the host name is in DNSDuration.
C30_BoundedByDeadline ==
  /\ (Alive /\ loopPc = "inflight" /\ phase \in BlockingPhases /\ deadlinePassed)
       => ENABLED ReturnOnDeadline
  /\ TcpReturned => (attempt.dnsTime > 0 => stats.dns > 0)

\* The attempts that returned and whose line is due: all that were started,
\* less the one in flight or returned and not yet logged.
AttemptsLogged ==
  attemptsStarted - (IF loopPc \in {"inflight", "log"} THEN 1 ELSE 0)

\* An attempt failed (not by cancellation), was logged, and the limit is not
\* reached by it.
FailedBelowLimit ==
  /\ loopPc = "inc" /\ attemptsStarted < MaxAttempts
  /\ lastErr \in {"neterr", "deadline"}
  /\ ~(counter > 0 /\ total + 1 >= counter)

\* C23: every attempt that returns, successful or failed, produces exactly
\* one line, and a failed attempt never ends the run: when the limit is not
\* reached and the run is not cancelled the loop arms the interval timer,
\* and the next attempt follows unless the run is stopped meanwhile.
C23_FailedAttemptDoesNotEndRun ==
  /\ [](lines = AttemptsLogged)
  /\ [][(/\ loopPc = "check" /\ loopPc' # "check"
         /\ ~(counter > 0 /\ total >= counter) /\ ~ctxDone)
          => (loopPc' = "select" /\ timer' = "armed"
              /\ timerDelay' = DefaultInterval)]_vars
  /\ FailedBelowLimit ~> (loopPc = "inflight" \/ stopClosed)

C23_Witness ==
  /\ attemptsStarted = 3 /\ loopPc = "inflight" /\ ~stopClosed
  /\ lines = 2 /\ failedTotal = 2 /\ okCount = 0
  /\ timerDelay = DefaultInterval

\* C32: once Stop() has been called no new attempt is started, whatever the
\* interleaving of the watcher, the timer and the attempt loop: only an
\* attempt already in flight may complete.
C32_NoAttemptAfterStop ==
  [][stopClosed => attemptsStarted' = attemptsStarted]_vars

\* C35: a UDP attempt whose DNS lookup fails or returns no addresses returns
\* at once with connected == false and a non-nil error and goes through no
\* later operation: no socket is opened, no payload is written, no read is
\* made and Meta has no "sent" entry; "sent" is present only when the
\* payload was written.
C35_UdpDnsFailureEndsAttempt ==
  UdpReturned =>
    /\ "dnsfail" \in attempt.ops =>
         /\ ~stats.connected /\ stats.err # "nil"
         /\ attempt.ops = {"dnsfail"} /\ openConns = 0
         /\ "sent" \notin stats.meta
    /\ "sent" \in stats.meta => "write" \in attempt.ops

C35_Witness ==
  /\ UdpReturned /\ ~hostIsIP /\ "dnsfail" \in attempt.ops
  /\ stats.err = "neterr" /\ stats.dns = 1 /\ stats.addr = "none"
  /\ lines = 1 /\ okCount = 1

\* C36: whenever Summarize renders the trip times, Minimum <= Average <=
\* Maximum, also for runs in which some or all attempts failed (stated for
\* a Summarize that ran after the loop returned).
C36_MinAvgMaxOrdered ==
  (summary.shown /\ summary.times /\ snapshot.loopDone) =>
    (summary.min <= summary.avg /\ summary.avg <= summary.max)

\* The phase durations the Trace derives.
PhaseDurations ==
  {tracer.DNSDuration, tracer.ConnectDuration, tracer.TLSDuration,
   tracer.WroteRequestDuration, tracer.WaitResponseDuration}

\* C33: for any order in which the trace checkpoints fire during one
\* attempt, repeated DNS or connect start/done pairs included, every derived
\* phase duration is >= 0, and at the request-written checkpoint the DNS,
\* connect, TLS and write durations sum to the time elapsed since the trace
\* was installed.
C33_PhasesNonNegativeAndDisjoint ==
  /\ \A d \in PhaseDurations : d >= 0
  /\ tracer.wroteAt # NoTime => tracer.wroteSum = tracer.wroteAt - tracer.start

\* The names of the phases the rendered line shows.
Rendered == {tracer.line[i] : i \in DOMAIN tracer.line}

\* C34: a traced phase (DNS, connect, TLS) whose start checkpoint never
\* fired has duration zero at the end of the attempt and is left out of the
\* rendered line; the TLS phase is rendered only when a handshake start was
\* observed.
C34_UnstartedPhaseOmitted ==
  tracer.pc = "ended" =>
    /\ "dns" \notin tracer.started =>
         (tracer.DNSDuration = 0 /\ "dns" \notin Rendered)
    /\ "connect" \notin tracer.started =>
         (tracer.ConnectDuration = 0 /\ "connect" \notin Rendered)
    /\ "tls" \notin tracer.started =>
         (tracer.TLSDuration = 0 /\ "tls" \notin Rendered)
    /\ "tls" \in Rendered => "tls" \in tracer.started

\* The attempt timeout in force: the configured one when positive, the
\* default otherwise.
AttemptTimeout ==
  IF timing.pingerArg > 0 THEN timing.pingerArg ELSE DefaultTimeout

==========================================================================
